---- MODULE Spec2Model ----
(***************************************************************************)
(* State-machine model of the yatube blogging platform: the relational    *)
(* schema of posts/models.py (Group, Post, Comment, Follow and the User    *)
(* they reference) with its on_delete rules and constraints, the PostForm  *)
(* validation of posts/forms.py and the paginator of core/utils.py.        *)
(***************************************************************************)
EXTENDS Bags, FiniteSets, Integers, Sequences, TLC

\* ---------------------------------------------------------------- bounds
MaxUsers == 2
MaxGroups == 1
MaxPosts == 2
MaxComments == 1
MaxFollows == 2
MaxTime == 1
MaxTextLen == 1
NumReqs == 2
MaxItems == 4
MaxPageSize == 3
MaxParamLen == 2

\* ------------------------------------------------------------- vocabulary
\* a NULL foreign key (row ids start at 1)
NULL == 0

\* characters of a submitted text: a blank and a letter
Chars == {" ", "a"}

Slugs == {"test-slug"}

RECURSIVE SeqsUpTo(_, _)
SeqsUpTo(S, n) ==
    IF n = 0 THEN {<<>>}
    ELSE LET shorter == SeqsUpTo(S, n - 1)
         IN  shorter \cup {Append(s, c) : s \in {t \in shorter : Len(t) = n - 1}, c \in S}

\* the texts a client can submit
Texts == SeqsUpTo(Chars, MaxTextLen)

VARIABLES
    users,      \* ids of the User rows that exist
    nextUser,   \* next id of the auth_user sequence
    groups,     \* Group rows
    nextGroup,
    posts,      \* Post rows
    nextPost,
    comments,   \* Comment rows
    nextComment,
    follows,    \* Follow rows: a bag of (user, author), the id no table and
                \* no query refers to left out
    now,        \* the clock auto_now_add reads
    response,   \* outcome of the last operation
    reqs,       \* follow requests in flight (concurrent handling)
    pg,         \* inputs and result of a custom_paginator call
    cache       \* the page cache's entry for the index page

vars == <<users, nextUser, groups, nextGroup, posts, nextPost, comments,
          nextComment, follows, now, response, reqs, pg, cache>>

store == <<users, nextUser, groups, nextGroup, posts, nextPost, comments,
           nextComment, follows>>

\* ------------------------------------------------------------ constraints
\* Follow.Meta.constraints: CheckConstraint(check=~Q(user=F('author')))
FollowCheckConstraintInverted(user, author) == user = author

FollowCheckConstraintDropped(user, author) == TRUE

FollowCheckConstraint(user, author) == ~(user = author)

\* every constraint the Follow table declares; an INSERT is atomic with it
FollowInsertAllowed(user, author) == FollowCheckConstraint(user, author)

\* Group.slug: SlugField(unique=True)
GroupSlugUnique(slug) == \A g \in groups : g.slug # slug

\* ------------------------------------------------------- on_delete rules
\* Post.group: on_delete=SET_NULL
PostsAfterGroupDeleteCascade(ps, gid) == {p \in ps : p.group # gid}

PostsAfterGroupDelete(ps, gid) ==
    {IF p.group = gid THEN [p EXCEPT !.group = NULL] ELSE p : p \in ps}

\* Comment.post: on_delete=SET_NULL
CommentsAfterPostsDelete(cs, pids) ==
    {IF c.post \in pids THEN [c EXCEPT !.post = NULL] ELSE c : c \in cs}

\* Post.author: on_delete=CASCADE
PostsKeptOnUserDelete(ps, uid) == {p \in ps : p.author # uid}

\* Comment.author: on_delete=CASCADE
CommentsKeptOnUserDelete(cs, uid) == {c \in cs : c.author # uid}

\* Follow.user and Follow.author: on_delete=CASCADE
FollowsKeptOnUserDeleteOneWay(fs, uid) ==
    [f \in {x \in DOMAIN fs : x.user # uid} |-> fs[f]]

FollowsKeptOnUserDelete(fs, uid) ==
    [f \in {x \in DOMAIN fs : x.user # uid /\ x.author # uid} |-> fs[f]]

\* ------------------------------------------------------- form validation
\* str.strip() as forms.CharField.to_python applies it (strip=True)
RECURSIVE lstrip(_)
lstrip(s) == IF s # <<>> /\ Head(s) = " " THEN lstrip(Tail(s)) ELSE s

RECURSIVE rstrip(_)
rstrip(s) ==
    IF s # <<>> /\ s[Len(s)] = " " THEN rstrip(SubSeq(s, 1, Len(s) - 1)) ELSE s

strip(s) == rstrip(lstrip(s))

\* a required field that takes the value as it was typed
TextFieldCleanUnstripped(value) ==
    IF value = <<>> THEN [valid |-> FALSE, error |-> "required"]
    ELSE [valid |-> TRUE, data |-> value]

\* the form field of a TextField declared without blank=True: the value is
\* stripped and an empty one is refused ("required")
TextFieldClean(value) ==
    LET data == strip(value)
    IN  IF data = <<>> THEN [valid |-> FALSE, error |-> "required"]
        ELSE [valid |-> TRUE, data |-> data]

\* PostForm.clean_text
clean_text(data) ==
    IF data = <<>> THEN [valid |-> FALSE, error |-> "empty text"]
    ELSE [valid |-> TRUE, data |-> data]

\* PostForm.is_valid() on the text: the field's own cleaning, then clean_text
PostFormCleanUnchecked(value) == [valid |-> TRUE, data |-> value]

PostFormClean(value) ==
    LET field == TextFieldClean(value)
    IN  IF field.valid THEN clean_text(field.data) ELSE field

\* CommentForm: fields = ('text',), no clean_ method of its own
CommentFormClean(value) == TextFieldClean(value)

\* the group choices a form accepts: no group, or a Group row that exists
GroupChoiceValid(g) == g = NULL \/ g \in {x.id : x \in groups}

\* ------------------------------------------------------------------ Init
NoResponse == [op |-> "none"]

NoPage == [called |-> FALSE]

Idle == [pc |-> "idle"]
EmptyCache == [cached |-> FALSE]

StoreInit ==
    /\ users = {}
    /\ nextUser = 1
    /\ groups = {}
    /\ nextGroup = 1
    /\ posts = {}
    /\ nextPost = 1
    /\ comments = {}
    /\ nextComment = 1
    /\ follows = EmptyBag
    /\ now = 0
    /\ response = NoResponse

Init ==
    /\ StoreInit
    /\ reqs = [r \in 1..NumReqs |-> Idle]
    /\ pg = NoPage
    /\ cache = EmptyCache

\* the registered users are there when the workers start
InitConc ==
    /\ users = 1..MaxUsers
    /\ nextUser = MaxUsers + 1
    /\ groups = {}
    /\ nextGroup = 1
    /\ posts = {}
    /\ nextPost = 1
    /\ comments = {}
    /\ nextComment = 1
    /\ follows = EmptyBag
    /\ now = 0
    /\ response = NoResponse
    /\ reqs = [r \in 1..NumReqs |-> Idle]
    /\ pg = NoPage
    /\ cache = EmptyCache

\* ------------------------------------------------------- store operations
\* time passes between two requests
Tick ==
    /\ now < MaxTime
    /\ now' = now + 1
    /\ UNCHANGED <<store, response, reqs, pg, cache>>

\* User.objects.create_user
CreateUser ==
    /\ nextUser <= MaxUsers
    /\ users' = users \cup {nextUser}
    /\ nextUser' = nextUser + 1
    /\ response' = [op |-> "create_user", status |-> "ok", id |-> nextUser]
    /\ UNCHANGED <<groups, nextGroup, posts, nextPost, comments, nextComment,
                   follows, now, reqs, pg, cache>>

\* user.delete(): the collector cascades over Post.author, Comment.author,
\* Follow.user and Follow.author, and nulls Comment.post of the deleted posts
DeleteUser(u) ==
    /\ u \in users
    /\ LET gone == {p.id : p \in posts} \ {p.id : p \in PostsKeptOnUserDelete(posts, u)}
       IN  /\ posts' = PostsKeptOnUserDelete(posts, u)
           /\ comments' = CommentsAfterPostsDelete(CommentsKeptOnUserDelete(comments, u), gone)
    /\ follows' = FollowsKeptOnUserDelete(follows, u)
    /\ users' = users \ {u}
    /\ response' = [op |-> "delete_user", status |-> "ok", id |-> u,
                    deleted |-> [posts |-> Cardinality(posts) - Cardinality(posts'),
                                 comments |-> Cardinality(comments) - Cardinality(comments'),
                                 follows |-> BagCardinality(follows) - BagCardinality(follows')]]
    /\ UNCHANGED <<nextUser, groups, nextGroup, nextPost, nextComment,
                   now, reqs, pg, cache>>

\* Group.objects.create(slug=...)
CreateGroup(slug) ==
    /\ GroupSlugUnique(slug) => nextGroup <= MaxGroups
    /\ IF GroupSlugUnique(slug)
       THEN /\ groups' = groups \cup {[id |-> nextGroup, slug |-> slug]}
            /\ nextGroup' = nextGroup + 1
            /\ response' = [op |-> "create_group", status |-> "ok", id |-> nextGroup]
       ELSE /\ response' = [op |-> "create_group", status |-> "IntegrityError", id |-> NULL]
            /\ UNCHANGED <<groups, nextGroup>>
    /\ UNCHANGED <<users, nextUser, posts, nextPost, comments, nextComment,
                   follows, now, reqs, pg, cache>>

\* group.delete()
DeleteGroup(g) ==
    /\ g \in {x.id : x \in groups}
    /\ groups' = {x \in groups : x.id # g}
    /\ posts' = PostsAfterGroupDelete(posts, g)
    /\ response' = [op |-> "delete_group", status |-> "ok", id |-> g]
    /\ UNCHANGED <<users, nextUser, nextGroup, nextPost, comments, nextComment,
                   follows, now, reqs, pg, cache>>

\* post.delete()
DeletePost(p) ==
    /\ p \in {x.id : x \in posts}
    /\ posts' = {x \in posts : x.id # p}
    /\ comments' = CommentsAfterPostsDelete(comments, {p})
    /\ response' = [op |-> "delete_post", status |-> "ok", id |-> p]
    /\ UNCHANGED <<users, nextUser, groups, nextGroup, nextPost, nextComment,
                   follows, now, reqs, pg, cache>>

\* a Follow row
Row(user, author) == [user |-> user, author |-> author]

\* the number of Follow rows of one (user, author) pair
FollowCount(user, author) == CopiesIn(Row(user, author), follows)

\* Follow.objects.create(user=..., author=...)
CreateFollow(user, author) ==
    /\ user \in users /\ author \in users
    /\ FollowInsertAllowed(user, author) => BagCardinality(follows) < MaxFollows
    /\ IF FollowInsertAllowed(user, author)
       THEN /\ follows' = follows (+) SetToBag({Row(user, author)})
            /\ response' = [op |-> "create_follow", status |-> "ok",
                            user |-> user, author |-> author]
       ELSE /\ response' = [op |-> "create_follow", status |-> "IntegrityError",
                            user |-> user, author |-> author]
            /\ UNCHANGED follows
    /\ UNCHANGED <<users, nextUser, groups, nextGroup, posts, nextPost,
                   comments, nextComment, now, reqs, pg, cache>>

\* follow.delete() of one row of the pair
DeleteFollow(user, author) ==
    /\ FollowCount(user, author) > 0
    /\ follows' = follows (-) SetToBag({Row(user, author)})
    /\ response' = [op |-> "delete_follow", status |-> "ok",
                    user |-> user, author |-> author]
    /\ UNCHANGED <<users, nextUser, groups, nextGroup, posts, nextPost,
                   comments, nextComment, now, reqs, pg, cache>>

\* ----------------------------------------------------------------- views
\* request.user of a client that has not logged in
AnonymousUser == NULL

\* who can send a request: a registered user's session, or nobody's
Actors == users \cup {AnonymousUser}

\* a gate that lets every request through
is_authenticated_any(user) == TRUE

\* request.user.is_authenticated, the test of @login_required
is_authenticated(user) == user # AnonymousUser

\* @login_required on an anonymous request: redirect to the login page
RedirectToLogin(op, text, id) ==
    /\ response' = [op |-> op, status |-> "RedirectLogin", user |-> AnonymousUser,
                    text |-> text, id |-> id]
    /\ UNCHANGED store

\* post_create: login required; PostForm(request.POST).is_valid(), then save
\* with the author
PostCreate(user, text, group) ==
    /\ user \in Actors
    /\ GroupChoiceValid(group)
    /\ IF ~is_authenticated(user)
       THEN RedirectToLogin("post_create", text, NULL)
       ELSE
       LET form == PostFormClean(text)
       IN  IF form.valid
           THEN /\ nextPost <= MaxPosts
                /\ posts' = posts \cup {[id |-> nextPost, text |-> form.data,
                                         pub_date |-> now, author |-> user,
                                         group |-> group]}
                /\ nextPost' = nextPost + 1
                /\ response' = [op |-> "post_create", status |-> "ok",
                                user |-> user, text |-> text, id |-> nextPost]
                /\ UNCHANGED <<users, nextUser, groups, nextGroup, comments,
                               nextComment, follows>>
           ELSE /\ response' = [op |-> "post_create", status |-> "ValidationError",
                                user |-> user, text |-> text, id |-> NULL]
                /\ UNCHANGED store
    /\ UNCHANGED <<now, reqs, pg, cache>>

\* post_edit: anyone but the post's author is redirected to the post page;
\* for the author PostForm(instance=post).is_valid(), save
PostEdit(user, p, text, group) ==
    /\ user \in Actors
    /\ GroupChoiceValid(group)
    /\ IF ~is_authenticated(user)
       THEN RedirectToLogin("post_edit", text, p)
       ELSE
       \E post \in posts :
        /\ post.id = p
        /\ IF post.author # user
           THEN /\ response' = [op |-> "post_edit", status |-> "RedirectPost",
                                user |-> user, text |-> text, id |-> p]
                /\ UNCHANGED posts
           ELSE
           LET form == PostFormClean(text)
           IN  IF form.valid
               THEN /\ posts' = (posts \ {post}) \cup
                                {[post EXCEPT !.text = form.data, !.group = group]}
                    /\ response' = [op |-> "post_edit", status |-> "ok",
                                    user |-> user, text |-> text, id |-> p]
               ELSE /\ response' = [op |-> "post_edit", status |-> "ValidationError",
                                    user |-> user, text |-> text, id |-> p]
                    /\ UNCHANGED posts
        /\ UNCHANGED <<users, nextUser, groups, nextGroup, nextPost, comments,
                       nextComment, follows>>
    /\ UNCHANGED <<now, reqs, pg, cache>>

\* add_comment: login required; CommentForm(request.POST).is_valid(), save
\* with author and post
AddComment(user, p, text) ==
    /\ user \in Actors
    /\ p \in {x.id : x \in posts}
    /\ IF ~is_authenticated(user)
       THEN RedirectToLogin("add_comment", text, NULL)
       ELSE
       LET form == CommentFormClean(text)
       IN  IF form.valid
           THEN /\ nextComment <= MaxComments
                /\ comments' = comments \cup {[id |-> nextComment, post |-> p,
                                               author |-> user, text |-> form.data,
                                               created |-> now]}
                /\ nextComment' = nextComment + 1
                /\ response' = [op |-> "add_comment", status |-> "ok",
                                user |-> user, text |-> text, id |-> nextComment]
                /\ UNCHANGED <<users, nextUser, groups, nextGroup, posts,
                               nextPost, follows>>
           ELSE /\ response' = [op |-> "add_comment", status |-> "ValidationError",
                                user |-> user, text |-> text, id |-> NULL]
                /\ UNCHANGED store
    /\ UNCHANGED <<now, reqs, pg, cache>>

\* profile_follow, handled with no other request in between: login required,
\* 404 for an author that does not exist, else create if absent
ProfileFollow(user, author) ==
    /\ user \in Actors
    /\ IF ~is_authenticated(user)
       THEN /\ response' = [op |-> "profile_follow", status |-> "RedirectLogin",
                            user |-> user, author |-> author]
            /\ UNCHANGED follows
       ELSE IF author \notin users
       THEN /\ response' = [op |-> "profile_follow", status |-> "NotFound",
                            user |-> user, author |-> author]
            /\ UNCHANGED follows
       ELSE IF FollowCount(user, author) > 0
       THEN /\ response' = [op |-> "profile_follow", status |-> "ok",
                            user |-> user, author |-> author]
            /\ UNCHANGED follows
       ELSE IF FollowInsertAllowed(user, author)
       THEN /\ BagCardinality(follows) < MaxFollows
            /\ follows' = follows (+) SetToBag({Row(user, author)})
            /\ response' = [op |-> "profile_follow", status |-> "ok",
                            user |-> user, author |-> author]
       ELSE /\ response' = [op |-> "profile_follow", status |-> "ValidationError",
                            user |-> user, author |-> author]
            /\ UNCHANGED follows
    /\ UNCHANGED <<users, nextUser, groups, nextGroup, posts, nextPost,
                   comments, nextComment, now, reqs, pg, cache>>

\* the Follow rows without those of one pair
WithoutPair(fs, user, author) ==
    [f \in DOMAIN fs \ {Row(user, author)} |-> fs[f]]

\* profile_unfollow: login required, 404 for an author that does not exist,
\* else delete the rows of the pair, if any
ProfileUnfollow(user, author) ==
    /\ user \in Actors
    /\ IF ~is_authenticated(user)
       THEN /\ response' = [op |-> "profile_unfollow", status |-> "RedirectLogin",
                            user |-> user, author |-> author, deleted |-> 0]
            /\ UNCHANGED follows
       ELSE IF author \notin users
       THEN /\ response' = [op |-> "profile_unfollow", status |-> "NotFound",
                            user |-> user, author |-> author, deleted |-> 0]
            /\ UNCHANGED follows
       ELSE /\ follows' = WithoutPair(follows, user, author)
            /\ response' = [op |-> "profile_unfollow", status |-> "ok",
                            user |-> user, author |-> author,
                            deleted |-> FollowCount(user, author)]
    /\ UNCHANGED <<users, nextUser, groups, nextGroup, posts, nextPost,
                   comments, nextComment, now, reqs, pg, cache>>

\* ----------------------------------------------------------------- feeds
\* Post.Meta.ordering = ['-pub_date']: p may be listed before q
PostOrderingAscending(p, q) == p.pub_date <= q.pub_date

PostOrdering(p, q) == p.pub_date >= q.pub_date

RECURSIVE Listings(_)
\* every order the database may return the rows of ps in: rows with the same
\* pub_date come in any order
Listings(ps) ==
    IF ps = {} THEN {<<>>}
    ELSE UNION {{<<p>> \o rest : rest \in Listings(ps \ {p})} :
                p \in {x \in ps : \A y \in ps : PostOrdering(x, y)}}

\* the authors a viewer follows
Following(viewer) == {f.author : f \in {x \in BagToSet(follows) : x.user = viewer}}

\* follow_index: the posts of the authors the viewer follows
FollowIndex(viewer) ==
    /\ viewer \in users
    /\ \E feed \in Listings({p \in posts : p.author \in Following(viewer)}) :
        response' = [op |-> "follow_index", status |-> "ok", user |-> viewer,
                     feed |-> [i \in 1..Len(feed) |-> feed[i].id]]
    /\ UNCHANGED <<store, now, reqs, pg, cache>>

\* ------------------------------------------------------------ page cache
\* a lookup that never finds the entry
cache_get_none(c) == [hit |-> FALSE]

\* the page cache's lookup of the index page
cache_get(c) ==
    IF c.cached THEN [hit |-> TRUE, content |-> c.content] ELSE [hit |-> FALSE]

\* the index page rendered from a listing: each post's id and text, in order
Render(listing) ==
    [i \in 1..Len(listing) |-> [id |-> listing[i].id, text |-> listing[i].text]]

\* index behind the page cache: a cached page is served as it is; otherwise
\* the page is rendered from the posts in the store and put in the cache
Index ==
    /\ LET found == cache_get(cache)
       IN  IF found.hit
           THEN /\ response' = [op |-> "index", status |-> "ok", hit |-> TRUE,
                                content |-> found.content]
                /\ UNCHANGED cache
           ELSE \E listing \in Listings(posts) :
                /\ response' = [op |-> "index", status |-> "ok", hit |-> FALSE,
                                content |-> Render(listing)]
                /\ cache' = [cached |-> TRUE, content |-> Render(listing)]
    /\ UNCHANGED <<store, now, reqs, pg>>

\* cache.clear()
CacheClear ==
    /\ cache' = EmptyCache
    /\ response' = [op |-> "cache_clear", status |-> "ok"]
    /\ UNCHANGED <<store, now, reqs, pg>>

\* the entry's time window ends
CacheExpire ==
    /\ cache.cached
    /\ cache' = EmptyCache
    /\ response' = [op |-> "cache_expire", status |-> "ok"]
    /\ UNCHANGED <<store, now, reqs, pg>>

\* ------------------------------------------------------------- paginator
DigitChars == <<"0", "1", "2", "3", "4", "5", "6", "7", "8", "9">>

Digits == {DigitChars[i] : i \in 1..Len(DigitChars)}

DigitValue == [c \in Digits |-> (CHOOSE i \in 1..Len(DigitChars) : DigitChars[i] = c) - 1]

\* characters of a ?page= value: digits, a sign and a letter
ParamChars == Digits \cup {"-", "x"}

\* request.GET.get('page'): None when the query string has no page
NoParam == [present |-> FALSE]

PageParams ==
    {NoParam} \cup {[present |-> TRUE, value |-> v] : v \in SeqsUpTo(ParamChars, MaxParamLen)}

RECURSIVE DecimalValue(_)
DecimalValue(ds) ==
    IF ds = <<>> THEN 0
    ELSE 10 * DecimalValue(SubSeq(ds, 1, Len(ds) - 1)) + DigitValue[ds[Len(ds)]]

\* int(number) in validate_number: TypeError on None, ValueError on a string
\* that is not an optional sign followed by digits
ParseInt(param) ==
    IF ~param.present THEN [ok |-> FALSE, error |-> "TypeError"]
    ELSE LET v == param.value
             negative == v # <<>> /\ Head(v) = "-"
             ds == IF negative THEN Tail(v) ELSE v
         IN  IF ds # <<>> /\ \A i \in 1..Len(ds) : ds[i] \in Digits
             THEN [ok |-> TRUE,
                   value |-> IF negative THEN 0 - DecimalValue(ds) ELSE DecimalValue(ds)]
             ELSE [ok |-> FALSE, error |-> "ValueError"]

\* Paginator(post_list, number_pages): orphans=0, allow_empty_first_page=True
orphans == 0

allow_empty_first_page == TRUE

Max(a, b) == IF a >= b THEN a ELSE b

\* Paginator.num_pages: ceil(hits / per_page)
num_pages_floor(count, per_page) == Max(1, count - orphans) \div per_page

num_pages(count, per_page) ==
    IF count = 0 /\ ~allow_empty_first_page THEN 0
    ELSE (Max(1, count - orphans) + per_page - 1) \div per_page

\* Paginator.validate_number
validate_number(param, count, per_page) ==
    LET n == ParseInt(param)
    IN  IF ~n.ok THEN [ok |-> FALSE, error |-> "PageNotAnInteger"]
        ELSE IF n.value < 1 THEN [ok |-> FALSE, error |-> "EmptyPage"]
        ELSE IF n.value > num_pages(count, per_page)
                /\ ~(n.value = 1 /\ allow_empty_first_page)
             THEN [ok |-> FALSE, error |-> "EmptyPage"]
        ELSE [ok |-> TRUE, value |-> n.value]

\* Python's object_list[bottom:top]
Slice(seq, bottom, top) ==
    LET lo == IF bottom > Len(seq) THEN Len(seq) ELSE bottom
        hi == IF top > Len(seq) THEN Len(seq) ELSE top
    IN  IF hi <= lo THEN <<>> ELSE SubSeq(seq, lo + 1, hi)

\* Paginator.page(number) for a number validate_number accepted
page_short(object_list, per_page, number) ==
    LET bottom == (number - 1) * per_page
        top == bottom + per_page - 1
    IN  [number |-> number, object_list |-> Slice(object_list, bottom, top)]

page(object_list, per_page, number) ==
    LET count == Len(object_list)
        bottom == (number - 1) * per_page
        top == IF bottom + per_page + orphans >= count THEN count
               ELSE bottom + per_page
    IN  [number |-> number, object_list |-> Slice(object_list, bottom, top)]

\* Paginator.get_page: PageNotAnInteger gives page 1, EmptyPage the last page
get_page_strict(object_list, per_page, param) ==
    LET count == Len(object_list)
        n == validate_number(param, count, per_page)
    IN  page(object_list, per_page, IF n.ok THEN n.value ELSE 1)

get_page(object_list, per_page, param) ==
    LET count == Len(object_list)
        n == validate_number(param, count, per_page)
        number == IF n.ok THEN n.value
                  ELSE IF n.error = "PageNotAnInteger" THEN 1
                  ELSE num_pages(count, per_page)
    IN  page(object_list, per_page, number)

\* custom_paginator(request, post_list, number_pages)
custom_paginator(param, post_list, number_pages) ==
    get_page(post_list, number_pages, param)

\* a listing of n posts, newest (highest id) first
ListingOf(n) == [i \in 1..n |-> n - i + 1]

\* a request for a listing of n posts, before its view has run
PageRequest(n, number_pages, param) ==
    [called |-> FALSE, post_list |-> ListingOf(n), number_pages |-> number_pages,
     param |-> param, page_obj |-> [number |-> 0, object_list |-> <<>>]]

\* the view paginates its listing with the page the request names
Paginate ==
    /\ ~pg.called
    /\ pg' = [pg EXCEPT !.called = TRUE,
                        !.page_obj = custom_paginator(pg.param, pg.post_list,
                                                      pg.number_pages)]
    /\ UNCHANGED <<store, now, response, reqs, cache>>

\* --------------------------------------------- concurrent follow requests
\* Several workers handle profile_follow and profile_unfollow at once; each
\* database query is one step.  profile_follow is "create if absent": a
\* SELECT of the pair's row, then an INSERT if the SELECT found none.
\* profile_follow, first query: look the row up
FollowGet(r, user, author) ==
    /\ reqs[r].pc = "idle"
    /\ user \in users /\ author \in users
    /\ reqs' = [reqs EXCEPT ![r] = [pc |-> "got", user |-> user, author |-> author,
                                    found |-> FollowCount(user, author) > 0]]
    /\ UNCHANGED <<store, now, response, pg, cache>>

\* profile_follow, second query: insert unless the lookup found a row
FollowCreate(r) ==
    /\ reqs[r].pc = "got"
    /\ LET user == reqs[r].user
           author == reqs[r].author
           done(outcome) == [pc |-> "done", user |-> user, author |-> author,
                             outcome |-> outcome]
       IN  IF reqs[r].found
           THEN /\ reqs' = [reqs EXCEPT ![r] = done("exists")]
                /\ UNCHANGED follows
           ELSE IF FollowInsertAllowed(user, author)
           THEN /\ BagCardinality(follows) < MaxFollows
                /\ follows' = follows (+) SetToBag({Row(user, author)})
                /\ reqs' = [reqs EXCEPT ![r] = done("created")]
           ELSE /\ reqs' = [reqs EXCEPT ![r] = done("rejected")]
                /\ UNCHANGED follows
    /\ UNCHANGED <<users, nextUser, groups, nextGroup, posts, nextPost,
                   comments, nextComment, now, response, pg, cache>>

\* profile_unfollow: one DELETE of the pair's rows
UnfollowDelete(r, user, author) ==
    /\ reqs[r].pc = "idle"
    /\ user \in users /\ author \in users
    /\ follows' = WithoutPair(follows, user, author)
    /\ reqs' = [reqs EXCEPT ![r] = [pc |-> "done", user |-> user, author |-> author,
                                    outcome |-> "deleted"]]
    /\ UNCHANGED <<users, nextUser, groups, nextGroup, posts, nextPost,
                   comments, nextComment, now, response, pg, cache>>

\* the response is sent; the worker takes the next request
Respond(r) ==
    /\ reqs[r].pc = "done"
    /\ reqs' = [reqs EXCEPT ![r] = Idle]
    /\ UNCHANGED <<store, now, response, pg, cache>>

\* ------------------------------------------------------- specifications
UserOps ==
    \/ CreateUser
    \/ \E u \in 1..MaxUsers : DeleteUser(u)

GroupOps ==
    \/ \E s \in Slugs : CreateGroup(s)
    \/ \E g \in 1..MaxGroups : DeleteGroup(g)

PostOps ==
    \/ \E u \in 1..MaxUsers, t \in Texts, g \in 0..MaxGroups : PostCreate(u, t, g)
    \/ \E u \in 1..MaxUsers, p \in 1..MaxPosts, t \in Texts, g \in 0..MaxGroups :
            PostEdit(u, p, t, g)
    \/ \E p \in 1..MaxPosts : DeletePost(p)

CommentOps ==
    \E u \in 1..MaxUsers, p \in 1..MaxPosts, t \in Texts : AddComment(u, p, t)

FollowStoreOps ==
    \/ \E u, a \in 1..MaxUsers : CreateFollow(u, a)
    \/ \E u, a \in 1..MaxUsers : DeleteFollow(u, a)

FollowViewOps ==
    \/ \E u, a \in 1..MaxUsers : ProfileFollow(u, a)
    \/ \E u, a \in 1..MaxUsers : ProfileUnfollow(u, a)

FeedOps ==
    \E u \in 1..MaxUsers : FollowIndex(u)

CacheOps ==
    \/ Index
    \/ CacheClear
    \/ CacheExpire

\* the whole application, one request handled at a time
Next ==
    \/ Tick
    \/ UserOps
    \/ GroupOps
    \/ PostOps
    \/ CommentOps
    \/ FollowStoreOps
    \/ FollowViewOps
    \/ FeedOps
    \/ CacheOps

Spec == Init /\ [][Next]_vars

\* users, their Follow edges and the follow views
NextFollow ==
    \/ UserOps
    \/ FollowStoreOps
    \/ FollowViewOps
    \/ FeedOps

SpecFollow == Init /\ [][NextFollow]_vars

\* groups, posts edited by their authors, and comments
NextContent ==
    \/ UserOps
    \/ GroupOps
    \/ \E u \in 1..MaxUsers, g \in 0..MaxGroups : PostCreate(u, <<"a">>, g)
    \/ \E post \in posts, g \in 0..MaxGroups :
            PostEdit(post.author, post.id, <<"a">>, g)
    \/ \E p \in 1..MaxPosts : DeletePost(p)
    \/ \E u \in 1..MaxUsers, p \in 1..MaxPosts : AddComment(u, p, <<"a">>)

SpecContent == Init /\ [][NextContent]_vars

\* posts written and edited through PostForm
NextPosts ==
    \/ CreateUser
    \/ PostOps

SpecPosts == Init /\ [][NextPosts]_vars

\* what a user's deletion takes along
NextCascade ==
    \/ UserOps
    \/ \E u \in 1..MaxUsers : PostCreate(u, <<"a">>, NULL)
    \/ \E u \in 1..MaxUsers, p \in 1..MaxPosts : AddComment(u, p, <<"a">>)
    \/ \E u, a \in 1..MaxUsers : ProfileFollow(u, a)

SpecCascade == Init /\ [][NextCascade]_vars

\* the subscription feed
NextFeed ==
    \/ Tick
    \/ CreateUser
    \/ \E u \in 1..MaxUsers : PostCreate(u, <<"a">>, NULL)
    \/ \E p \in 1..MaxPosts : DeletePost(p)
    \/ FollowViewOps
    \/ FeedOps

SpecFeed == Init /\ [][NextFeed]_vars

\* posts and follows written by registered users, and every write view called
\* by a client that has not logged in
NextAuth ==
    \/ CreateUser
    \/ \E s \in Slugs : CreateGroup(s)
    \/ \E a \in 0..MaxUsers, g \in 0..MaxGroups : PostCreate(a, <<"a">>, g)
    \/ \E a \in 0..MaxUsers, p \in 1..MaxPosts, g \in 0..MaxGroups :
            PostEdit(a, p, <<"a">>, g)
    \/ \E p \in 1..MaxPosts : AddComment(AnonymousUser, p, <<"a">>)
    \/ \E a \in 0..MaxUsers, b \in 1..MaxUsers : ProfileFollow(a, b)
    \/ \E b \in 1..MaxUsers : ProfileUnfollow(AnonymousUser, b)

SpecAuth == Init /\ [][NextAuth]_vars

\* the index page behind the page cache, while posts come and go
NextCache ==
    \/ CreateUser
    \/ \E u \in 1..MaxUsers : PostCreate(u, <<"a">>, NULL)
    \/ \E p \in 1..MaxPosts : DeletePost(p)
    \/ CacheOps

SpecCache == Init /\ [][NextCache]_vars

\* follow and unfollow requests handled concurrently
NextConc ==
    \/ \E r \in 1..NumReqs, u, a \in 1..MaxUsers : FollowGet(r, u, a)
    \/ \E r \in 1..NumReqs : FollowCreate(r)
    \/ \E r \in 1..NumReqs, u, a \in 1..MaxUsers : UnfollowDelete(r, u, a)
    \/ \E r \in 1..NumReqs : Respond(r)

SpecConc == InitConc /\ [][NextConc]_vars

\* custom_paginator over every listing length, page size and page parameter
InitPage ==
    /\ StoreInit
    /\ reqs = [r \in 1..NumReqs |-> Idle]
    /\ cache = EmptyCache
    /\ \E n \in 0..MaxItems, P \in 1..MaxPageSize, k \in PageParams :
            pg = PageRequest(n, P, k)

NextPage == Paginate

SpecPage == InitPage /\ [][NextPage]_vars

\* ----------------------------------------------------------------- claims
Pairs == {Row(u, a) : u, a \in 1..MaxUsers}

\* C1: at most one Follow row exists per ordered pair (user, author), and a
\* create of a Follow whose pair already exists fails with a constraint
\* violation and leaves the Follow rows unchanged.
C1_FollowPairUnique ==
    /\ [](\A f \in Pairs : CopiesIn(f, follows) <= 1)
    /\ [][(/\ response'.op = "create_follow"
           /\ FollowCount(response'.user, response'.author) > 0)
          => (response'.status = "IntegrityError" /\ follows' = follows)]_vars

\* C2: however the queries of concurrent follow requests interleave, no
\* (user, author) pair ever has two Follow rows.
C2_ConcurrentFollowNoDuplicate ==
    \A u, a \in 1..MaxUsers : FollowCount(u, a) <= 1

\* C3: no Follow row has user equal to author, and an attempt to create one,
\* through the store or through the follow view, is rejected and leaves the
\* store unchanged.
C3_NoSelfFollow ==
    /\ [](\A f \in BagToSet(follows) : f.user # f.author)
    /\ [][(/\ response'.op \in {"create_follow", "profile_follow"}
           /\ response'.user = response'.author)
          => (/\ response'.status \in {"IntegrityError", "ValidationError"}
              /\ UNCHANGED store)]_vars

\* a self-follow was just refused while other Follow rows exist
C3_Witness ==
    /\ response.op = "create_follow"
    /\ response.user = response.author
    /\ response.status = "IntegrityError"
    /\ follows # EmptyBag

\* C4: a follow of another, existing author adds exactly one row when the pair has none
\* and changes nothing when it has one; an unfollow leaves the pair with no
\* row, whether it had one or not; neither surfaces an error nor touches the
\* rows of another pair.
C4_FollowUnfollowIdempotent ==
    [][(/\ response'.op \in {"profile_follow", "profile_unfollow"}
        /\ response'.user # response'.author
        /\ response'.author \in users)
       => LET pair == Row(response'.user, response'.author)
              before == CopiesIn(pair, follows)
              after == CopiesIn(pair, follows')
          IN  /\ response'.status = "ok"
              /\ \A f \in Pairs \ {pair} : CopiesIn(f, follows') = CopiesIn(f, follows)
              /\ response'.op = "profile_follow" =>
                    /\ before = 0 => after = 1
                    /\ before = 1 => after = 1
              /\ response'.op = "profile_unfollow" => after = 0]_vars

\* an unfollow has just removed the one row of its pair, and the row of
\* another pair is still there
C4_Witness ==
    /\ response.op = "profile_unfollow"
    /\ response.user # response.author
    /\ response.deleted = 1
    /\ FollowCount(response.user, response.author) = 0
    /\ BagCardinality(follows) = 1

\* C5: deleting a Group deletes no Post: every Post is still there, with its
\* group cleared if it was the deleted one and every other field as before.
\* Deleting a Post deletes no Comment: every Comment is still there, with its
\* post cleared if it was the deleted one and every other field as before.
\* Rows that did not reference the deleted target are untouched.
C5_WeakReferenceCleared ==
    [][/\ response'.op = "delete_group" =>
            /\ Cardinality(posts') = Cardinality(posts)
            /\ \A p \in posts : \E q \in posts' :
                    /\ q.id = p.id /\ q.text = p.text /\ q.pub_date = p.pub_date
                    /\ q.author = p.author
                    /\ q.group = IF p.group = response'.id THEN NULL ELSE p.group
            /\ comments' = comments
       /\ response'.op = "delete_post" =>
            /\ Cardinality(comments') = Cardinality(comments)
            /\ \A c \in comments : \E d \in comments' :
                    /\ d.id = c.id /\ d.text = c.text /\ d.created = c.created
                    /\ d.author = c.author
                    /\ d.post = IF c.post = response'.id THEN NULL ELSE c.post
            /\ posts' = {p \in posts : p.id # response'.id}
            /\ groups' = groups]_vars

\* the only post ever created has just been deleted, and the comment made on
\* it is still in the store, without a post
C5_Witness ==
    /\ response.op = "delete_post"
    /\ nextPost = 2
    /\ \E c \in comments : c.post = NULL /\ c.text # <<>>

\* C6: no Post, Comment or Follow refers to a user that does not exist; a
\* user's deletion removes exactly the posts and comments the user wrote and
\* the Follow rows the user is in, and a comment another user wrote stays,
\* with its post cleared if the post was the deleted user's.
C6_UserDeleteCascades ==
    /\ [](/\ \A p \in posts : p.author \in users
          /\ \A c \in comments : c.author \in users
          /\ \A f \in BagToSet(follows) : f.user \in users /\ f.author \in users)
    /\ [][response'.op = "delete_user" =>
            LET u == response'.id
                mine == {p.id : p \in {x \in posts : x.author = u}}
            IN  /\ posts' = {p \in posts : p.author # u}
                /\ \A f \in Pairs : CopiesIn(f, follows') =
                        IF f.user = u \/ f.author = u THEN 0 ELSE CopiesIn(f, follows)
                /\ {d.id : d \in comments'} = {c.id : c \in {x \in comments : x.author # u}}
                /\ \A c \in comments : c.author # u =>
                        \E d \in comments' :
                            /\ d.id = c.id /\ d.author = c.author /\ d.text = c.text
                            /\ d.created = c.created
                            /\ d.post = IF c.post \in mine THEN NULL ELSE c.post]_vars

\* a user has just been deleted: the post is gone, another user's comment on
\* it is left without a post, and the follows in both directions are gone
C6_Witness ==
    /\ response.op = "delete_user"
    /\ response.deleted = [posts |-> 1, comments |-> 0, follows |-> 2]
    /\ \E c \in comments : c.post = NULL /\ c.author \in users

\* C9: no Post has an empty text, and a post create or edit submitted with an
\* empty text leaves the posts as they were: PostForm refuses it with a
\* validation error whenever the request gets as far as the form.
C9_PostTextNeverEmpty ==
    /\ [](\A p \in posts : p.text # <<>>)
    /\ [][(/\ response'.op \in {"post_create", "post_edit"}
           /\ response'.text = <<>>)
          => /\ posts' = posts
             /\ response'.status \in {"ValidationError", "RedirectLogin",
                                      "RedirectPost"}
             /\ (response'.op = "post_create" /\ response'.user # AnonymousUser)
                    => response'.status = "ValidationError"
             /\ (/\ response'.op = "post_edit"
                 /\ \E p \in posts : /\ p.id = response'.id
                                     /\ p.author = response'.user)
                    => response'.status = "ValidationError"]_vars

\* an edit of an existing post to the empty text has just been refused
C9_Witness ==
    /\ response.op = "post_edit"
    /\ response.text = <<>>
    /\ response.status = "ValidationError"
    /\ \E p \in posts : p.id = response.id /\ p.text # <<>>

\* C10: the subscription feed of a viewer holds exactly the posts whose author
\* the viewer follows, each once; it is the empty sequence when the viewer
\* follows no one; and it lists the posts newest first.
C10_SubscriptionFeed ==
    response.op = "follow_index" =>
        LET viewer == response.user
            feed == response.feed
            followed == {p \in posts : \E f \in BagToSet(follows) :
                            f.user = viewer /\ f.author = p.author}
            date(id) == (CHOOSE p \in posts : p.id = id).pub_date
        IN  /\ {feed[i] : i \in 1..Len(feed)} = {p.id : p \in followed}
            /\ Len(feed) = Cardinality(followed)
            /\ (\A f \in BagToSet(follows) : f.user # viewer) => feed = <<>>
            /\ \A i, j \in 1..Len(feed) : i < j => date(feed[i]) >= date(feed[j])

\* a feed of two posts published at different times has just been served,
\* the newer one first
C10_Witness ==
    /\ response.op = "follow_index"
    /\ Len(response.feed) = 2
    /\ \E p, q \in posts :
        /\ p.id = response.feed[1] /\ q.id = response.feed[2]
        /\ p.pub_date > q.pub_date

\* the number of the last page of n items in pages of size: the least number
\* of pages that hold them all, and 1 when there are none
LastPage(n, size) ==
    CHOOSE last \in 1..Max(n, 1) :
        /\ last * size >= n
        /\ \A m \in 1..(last - 1) : m * size < n

Min(a, b) == IF a <= b THEN a ELSE b

\* items[(k-1)*size : k*size], position by position
PageSlice(items, size, k) ==
    [i \in 1..(Min(k * size, Len(items)) - (k - 1) * size) |-> items[(k - 1) * size + i]]

\* the page a request gets when a page below 1 counts as lowPage
ClampedPage(lowPage) ==
    LET k == ParseInt(pg.param)
        last == LastPage(Len(pg.post_list), pg.number_pages)
    IN  IF ~k.ok THEN 1
        ELSE IF k.value > last THEN last
        ELSE IF k.value < 1 THEN lowPage
        ELSE k.value

\* C7 as stated: an absent or non-numeric page gives page 1, a page beyond
\* the last gives the last page, a page below 1 gives page 1, and the page
\* returned is the slice of the clamped page number.
C7_ClampBelowOneToFirst ==
    pg.called =>
        /\ pg.page_obj.number = ClampedPage(1)
        /\ pg.page_obj.object_list =
                PageSlice(pg.post_list, pg.number_pages, ClampedPage(1))

\* C7 as amended: an absent or non-numeric page gives page 1, a page beyond
\* the last gives the last page, a page below 1 gives the last page too, and
\* the page returned is the slice of the clamped page number.
C7_ClampBelowOneToLast ==
    pg.called =>
        LET last == LastPage(Len(pg.post_list), pg.number_pages)
        IN  /\ pg.page_obj.number = ClampedPage(last)
            /\ pg.page_obj.object_list =
                    PageSlice(pg.post_list, pg.number_pages, ClampedPage(last))

\* a page below 1 was asked of a listing of several pages, and a page other
\* than the first came back
C7_Witness ==
    /\ pg.called
    /\ ParseInt(pg.param).ok
    /\ ParseInt(pg.param).value < 1
    /\ pg.page_obj.number > 1
    /\ pg.page_obj.object_list # <<>>

\* str(k), as a ?page=k link spells a page number
RECURSIVE Str(_)
Str(k) ==
    IF k < 10 THEN <<DigitChars[k + 1]>>
    ELSE Str(k \div 10) \o <<DigitChars[(k % 10) + 1]>>

PageLink(k) == [present |-> TRUE, value |-> Str(k)]

\* the pages 1..k of a listing, one after the other
RECURSIVE PagesUpTo(_, _, _)
PagesUpTo(items, size, k) ==
    IF k = 0 THEN <<>>
    ELSE PagesUpTo(items, size, k - 1)
            \o custom_paginator(PageLink(k), items, size).object_list

\* C8: of N posts in pages of P, page K (1 <= K <= ceil(N/P)) holds exactly
\* min(P, N - (K-1)*P) posts, and the pages in order are the listing itself,
\* every post once.
C8_PageSizes ==
    pg.called =>
        LET items == pg.post_list
            P == pg.number_pages
            N == Len(items)
            pages == IF N = 0 THEN 0 ELSE LastPage(N, P)
            k == ParseInt(pg.param)
        IN  /\ (k.ok /\ k.value \in 1..pages) =>
                    /\ pg.page_obj.number = k.value
                    /\ Len(pg.page_obj.object_list) = Min(P, N - (k.value - 1) * P)
            /\ \A K \in 1..pages :
                    Len(custom_paginator(PageLink(K), items, P).object_list)
                        = Min(P, N - (K - 1) * P)
            /\ PagesUpTo(items, P, pages) = items

\* the second and last page of four posts in pages of three was asked for
\* and holds the one remaining post
C8_Witness ==
    /\ pg.called
    /\ Len(pg.post_list) = 4
    /\ pg.number_pages = 3
    /\ pg.param = PageLink(2)
    /\ pg.page_obj.object_list = <<1>>

\* ------------------------------------------------------- unauthorized writes
WriteOps == {"post_create", "post_edit", "add_comment", "profile_follow",
             "profile_unfollow"}

\* C11: a write request by an anonymous client is redirected to login and
\* leaves every row as it was; a post_edit by a logged-in user who is not the
\* post's author is redirected to the post and leaves every row as it was; the
\* text or group of a post changes only in a post_edit by the post's author
C11_UnauthorizedWriteChangesNothing ==
    [][/\ (response'.op \in WriteOps /\ response'.user = AnonymousUser)
            => (response'.status = "RedirectLogin" /\ store' = store)
       /\ (/\ response'.op = "post_edit"
           /\ response'.user # AnonymousUser
           /\ \E post \in posts : /\ post.id = response'.id
                                  /\ post.author # response'.user)
            => (response'.status = "RedirectPost" /\ store' = store)
       /\ \A post \in posts, q \in posts' :
            (q.id = post.id /\ (q.text # post.text \/ q.group # post.group))
                => (response'.op = "post_edit" /\ response'.user = post.author)
      ]_vars

\* an anonymous client has just tried to edit an existing post into the
\* existing group, which the post is not in
C11_Witness ==
    /\ response.op = "post_edit"
    /\ response.status = "RedirectLogin"
    /\ groups # {}
    /\ \E post \in posts : post.id = response.id /\ post.group = NULL

\* ------------------------------------------------------------ cached index
\* the index pages the store can render
FreshPages == {Render(l) : l \in Listings(posts)}

\* C12: while the index page is cached, a read returns the cached content as
\* it is, whatever has happened to the posts since; when it is not cached
\* (never read, cleared or expired), a read is rendered from the posts in the
\* store, so it shows no deleted post, and is cached; reads, clears and expiry
\* change no row of the store
C12_CachedIndexStale ==
    [][/\ (response'.op = "index" /\ cache.cached)
            => (response'.content = cache.content /\ cache' = cache)
       /\ (response'.op = "index" /\ ~cache.cached)
            => /\ response'.content \in FreshPages
               /\ \A i \in DOMAIN response'.content :
                    response'.content[i].id \in {p.id : p \in posts}
               /\ cache' = [cached |-> TRUE, content |-> response'.content]
       /\ (response'.op \in {"index", "cache_clear", "cache_expire"}
           \/ cache' # cache)
            => store' = store
      ]_vars

\* a read has just been served from the cache, and it shows a post that is no
\* longer in the store
C12_Witness ==
    /\ response.op = "index"
    /\ response.hit
    /\ \E i \in DOMAIN response.content :
            response.content[i].id \notin {p.id : p \in posts}

\* ------------------------------------------------------ whitespace-only text
\* a text of spaces and nothing else
WhitespaceOnly(text) == text # <<>> /\ strip(text) = <<>>

\* C13, as stated: a post submitted with the empty text is refused with a
\* validation error, and a post submitted with a whitespace-only text is
\* accepted and stored with that text
C13_WhitespaceOnlyAccepted ==
    [][(response'.op = "post_create" /\ response'.user # AnonymousUser)
        => /\ response'.text = <<>>
                => (response'.status = "ValidationError" /\ posts' = posts)
           /\ WhitespaceOnly(response'.text)
                => /\ response'.status = "ok"
                   /\ \E p \in posts' \ posts : p.text = response'.text
      ]_vars

\* C13, as the form behaves: a post submitted with a text that is empty once
\* stripped (the empty text or a whitespace-only one) is refused with a
\* validation error and stores nothing; any other text is accepted and stored
\* stripped
C13_WhitespaceOnlyRefused ==
    [][(response'.op = "post_create" /\ response'.user # AnonymousUser)
        => IF strip(response'.text) = <<>>
           THEN response'.status = "ValidationError" /\ posts' = posts
           ELSE /\ response'.status = "ok"
                /\ \E p \in posts' \ posts : /\ p.id = response'.id
                                             /\ p.text = strip(response'.text)
      ]_vars

\* a post of one space has just been submitted by a registered user and
\* refused
C13_Witness ==
    /\ response.op = "post_create"
    /\ response.user \in users
    /\ WhitespaceOnly(response.text)
    /\ response.status = "ValidationError"

====
